---- MODULE Spec2Model ----
(***************************************************************************)
(* Model of the LRU slot cache NewLRUCache (src/server.go, lines 46-145).   *)
(*                                                                         *)
(* The cache object t holds slots (key -> {prev, next, key, value}),       *)
(* lruFront, lruBack and occupancy.  get(element) is modelled statement by  *)
(* statement, including the TypeError JavaScript raises when a property of  *)
(* t.slots[k] is read or written for a k that is not a key of t.slots:     *)
(* the statements executed before the throw keep their effect.             *)
(*                                                                         *)
(* Keys are the non-empty strings keyFn returns; they are modelled as the  *)
(* numbers 1..NumKeys and the JavaScript null as 0 (the code only compares *)
(* keys for identity and tests links for truthiness).                      *)
(***************************************************************************)
EXTENDS Integers, Sequences, FiniteSets, TLC

\* ---------------------------------------------------------------- bounds
NumKeys == 3
MaxCapacity == 3
MaxGets == 5
\* get is called only while fewer than MaxPending promises returned by
\* deleteFn are unsettled (they settle in any order, before or after the
\* calls of valueFn chained on them).
MaxPending == 1

Keys == 1..NumKeys
Null == 0

\* deleteFn as configured at construction: absent, returning undefined,
\* returning a promise, or throwing (the prefab cache).
DeleteModes == {"none", "sync", "async", "throw"}

\* The collaborators of the faulty configurations: a deleteFn that is
\* absent or returns a promise that rejects (the deleteFn that throws is one
\* of DeleteModes); a valueFn that returns its value or a promise of it, and
\* that fails for the elements of one set (by throwing, or by rejecting the
\* promise).
FaultyDeleteModes == {"none", "reject"}
ValueModes == {"sync", "async"}
FailingSets == {{}, {1}}

VARIABLES
    capacity,     \* constructor argument
    deleteMode,   \* which deleteFn the constructor was given
    slots,        \* t.slots
    lruFront,     \* t.lruFront
    lruBack,      \* t.lruBack
    occupancy,    \* t.occupancy
    nGets,        \* number of get calls made so far
    last,         \* what the last get call did and gave back
    mru,          \* keys in order of their last get call, most recent first
    pending,      \* promises returned by deleteFn that have not resolved yet
    deferred,     \* valueFn calls chained with .then on a deleteFn promise
    lastProduce,  \* the last invocation of valueFn
    printed,      \* what print did, if it ran since the last get
    valueMode,    \* whether valueFn returns a value or a promise
    failing,      \* the keys of the elements valueFn fails for
    producing     \* promises returned by valueFn that have not settled yet

vars == <<capacity, deleteMode, slots, lruFront, lruBack, occupancy,
          nGets, last, mru, pending, deferred, lastProduce, printed,
          valueMode, failing, producing>>

NoValue == [key |-> Null, slotId |-> 0, gen |-> 0]

\* The cache object as one record, threaded through the statements of _get.
T == [slots |-> slots, lruFront |-> lruFront, lruBack |-> lruBack,
      occupancy |-> occupancy]

\* ---------------------------------------------------------------- events
Event(ev, key, value, slotId) ==
    [ev |-> ev, key |-> key, value |-> value, slotId |-> slotId]

Ret(t, fx, v) == [t |-> t, fx |-> fx, kind |-> "return", value |-> v]
Throw(t, fx) == [t |-> t, fx |-> fx, kind |-> "throw", value |-> NoValue]

\* valueFn(elem, slotId): the value made for elem in slot slotId by get
\* number gen (every call makes a new value).
valueFn(key, slotId, gen) == [key |-> key, slotId |-> slotId, gen |-> gen]

\* The valFn argument of _get: valueFn itself, or deleteThenValue closed over
\* the popped entry back.
PlainFn == [wrapped |-> FALSE, key |-> Null, value |-> NoValue]
WrappedFn(back) == [wrapped |-> TRUE, key |-> back.key, value |-> back.value]

\* Does the call valueFn(elem, slotId) throw?  (A valueFn returning a
\* promise reports its failure by rejecting the promise instead.)
valueFnThrows(key) == valueMode = "sync" /\ key \in failing

\* deleteThenValue(elem, slotId), lines 115-124, and the plain valueFn.
callValFn(valFn, key, slotId, gen) ==
    LET v == valueFn(key, slotId, gen)
        produce == Event("produce", key, v, slotId)
        release == Event("release", valFn.key, valFn.value, 0)
        called == IF valueFnThrows(key)
                  THEN [fx |-> <<produce>>, threw |-> TRUE, value |-> NoValue]
                  ELSE [fx |-> <<produce>>, threw |-> FALSE, value |-> v]
    IN  IF valFn.wrapped /\ deleteMode # "none"
        THEN CASE deleteMode = "throw" ->
                    [fx |-> <<release>>, threw |-> TRUE, value |-> NoValue]
               [] deleteMode \in {"async", "reject"} ->
                    [fx |-> <<release, Event("defer", key, v, slotId)>>,
                     threw |-> FALSE, value |-> v]
               [] OTHER ->
                    [called EXCEPT !.fx = <<release>> \o called.fx]
        ELSE called

\* ---------------------------------------------------------------- hit path
\* Lines 67-81: move the requested slot to the front of the queue.
hitPath(t, key, fx) ==
    LET slot0 == t.slots[key]
        ok1 == slot0.prev = Null \/ slot0.prev \in DOMAIN t.slots
        t1 == IF slot0.prev # Null
              THEN [t EXCEPT !.slots[slot0.prev].next = slot0.next]
              ELSE t
        slot1 == t1.slots[key]
        ok2 == slot1.next = Null \/ slot1.next \in DOMAIN t1.slots
        t2 == IF slot1.next # Null
              THEN [t1 EXCEPT !.slots[slot1.next].prev = slot1.prev]
              ELSE t1
        ok3 == t2.lruFront \in DOMAIN t2.slots
        t3 == [t2 EXCEPT !.slots[t2.lruFront].prev = key]
        t4 == [t3 EXCEPT !.slots[key].next = t3.lruFront]
        t5 == [t4 EXCEPT !.slots[key].prev = Null]
        t6 == [t5 EXCEPT !.lruFront = key]
    IN  IF ~ok1 THEN Throw(t, fx)
        ELSE IF ~ok2 THEN Throw(t1, fx)
        ELSE IF ~ok3 THEN Throw(t2, fx)
        ELSE Ret(t6, fx, t6.slots[key].value)

\* ---------------------------------------------------------------- insert
\* A slip in the room test of line 84: the last free slot is never used.
hasRoomStrict(t) == t.occupancy + 1 < capacity

\* A slip in the room test of line 84: <= for <.
hasRoomOffByOne(t) == t.occupancy <= capacity

\* Line 84: is there room for one more entry?
hasRoom(t) == t.occupancy < capacity

\* Lines 85-100: insert at the front.
insertFront(t, key, valFn, gen, fx) ==
    LET call == callValFn(valFn, key, t.occupancy, gen)
        fx1 == fx \o call.fx
        slot == [prev |-> Null, next |-> t.lruFront, key |-> key,
                 value |-> call.value]
        ok1 == t.lruFront = Null \/ t.lruFront \in DOMAIN t.slots
        t1 == IF t.lruFront # Null
              THEN [t EXCEPT !.slots[t.lruFront].prev = key]
              ELSE t
        t2 == IF t1.lruBack = Null THEN [t1 EXCEPT !.lruBack = key] ELSE t1
        t3 == [t2 EXCEPT !.slots =
                  [k \in DOMAIN t2.slots \cup {key} |->
                      IF k = key THEN slot ELSE t2.slots[k]]]
        t4 == [t3 EXCEPT !.occupancy = t3.occupancy + 1]
        t5 == [t4 EXCEPT !.lruFront = key]
    IN  IF call.threw THEN Throw(t, fx1)
        ELSE IF ~ok1 THEN Throw(t, fx1)
        ELSE Ret(t5, fx1 \o <<Event("insert", key, call.value, t.occupancy)>>,
                 call.value)

\* ---------------------------------------------------------------- evict
\* A slip in the order of lines 104-113: deleteFn is called after the entry
\* was unlinked and removed, not before.
popBackReleaseLast(t, fx) ==
    LET defined == t.lruBack \in DOMAIN t.slots
        back == t.slots[t.lruBack]
        ok1 == back.prev = Null \/ back.prev \in DOMAIN t.slots
        t1 == IF back.prev # Null
              THEN [t EXCEPT !.slots[back.prev].next = Null]
              ELSE t
        t2 == [t1 EXCEPT !.slots =
                  [k \in DOMAIN t1.slots \ {t1.lruBack} |-> t1.slots[k]]]
        t3 == [t2 EXCEPT !.lruBack = back.prev]
        t4 == [t3 EXCEPT !.occupancy = t3.occupancy - 1]
        fx1 == fx \o <<Event("evict", back.key, back.value, 0)>>
        fx2 == IF deleteMode # "none"
               THEN fx1 \o <<Event("release", back.key, back.value, 0)>>
               ELSE fx1
    IN  IF ~defined THEN Throw(t, fx)
        ELSE IF ~ok1 THEN Throw(t, fx)
        ELSE IF deleteMode = "throw" THEN Throw(t4, fx2)
        ELSE Ret(t4, fx2, back.value)

\* Lines 104-113: pop the back.  The result's kind is "return" when the
\* statements ran to line 113.
popBack(t, fx) ==
    LET defined == t.lruBack \in DOMAIN t.slots
        back == t.slots[t.lruBack]
        fx1 == IF deleteMode # "none"
               THEN fx \o <<Event("release", back.key, back.value, 0)>>
               ELSE fx
        ok1 == back.prev = Null \/ back.prev \in DOMAIN t.slots
        t1 == IF back.prev # Null
              THEN [t EXCEPT !.slots[back.prev].next = Null]
              ELSE t
        t2 == [t1 EXCEPT !.slots =
                  [k \in DOMAIN t1.slots \ {t1.lruBack} |-> t1.slots[k]]]
        t3 == [t2 EXCEPT !.lruBack = back.prev]
        t4 == [t3 EXCEPT !.occupancy = t3.occupancy - 1]
    IN  IF ~defined THEN Throw(t, fx)
        ELSE IF deleteMode = "throw" THEN Throw(t, fx1)
        ELSE IF ~ok1 THEN Throw(t, fx1)
        ELSE Ret(t4, fx1 \o <<Event("evict", back.key, back.value, 0)>>,
                 back.value)

\* ---------------------------------------------------------------- _get
\* Lines 65-128.
RECURSIVE get_(_, _, _, _, _)
get_(t, key, valFn, gen, fx) ==
    IF key \in DOMAIN t.slots THEN hitPath(t, key, fx)
    ELSE IF hasRoom(t) THEN insertFront(t, key, valFn, gen, fx)
    ELSE LET popped == popBack(t, fx)
         IN  IF popped.kind = "throw" THEN popped
             ELSE get_(popped.t, key,
                       WrappedFn([key |-> t.slots[t.lruBack].key,
                                  value |-> t.slots[t.lruBack].value]),
                       gen, popped.fx)

\* Lines 61-63.
get(t, key, gen) == get_(t, key, PlainFn, gen, <<>>)

\* ---------------------------------------------------------------- print
NotPrinted == [kind |-> "none", elems |-> <<>>]

\* Lines 136-139: the while loop.  Reading t.slots[rover].key for a rover
\* that is not a key of t.slots throws; a rover met before means the loop
\* never ends, since nothing it reads changes.
RECURSIVE rove(_, _, _)
rove(t, rover, elems) ==
    IF rover = Null THEN [kind |-> "done", elems |-> elems, t |-> t]
    ELSE IF rover \notin DOMAIN t.slots
    THEN [kind |-> "throw", elems |-> elems, t |-> t]
    ELSE IF \E i \in 1..Len(elems) : elems[i] = t.slots[rover].key
    THEN [kind |-> "diverge", elems |-> elems, t |-> t]
    ELSE rove(t, t.slots[rover].next, Append(elems, t.slots[rover].key))

\* A slip in print: the front pointer itself is used as the rover.
printMovingFront(t) ==
    IF t.lruFront = Null THEN [kind |-> "done", elems |-> <<>>, t |-> t]
    ELSE LET r == rove(t, t.lruFront, <<>>)
         IN  [r EXCEPT !.t = [t EXCEPT !.lruFront = Null]]

\* Lines 130-141.
print(t) ==
    IF t.lruFront = Null THEN [kind |-> "done", elems |-> <<>>, t |-> t]
    ELSE rove(t, t.lruFront, <<>>)

\* ---------------------------------------------------------------- helpers
EventsOf(fx, ev) == SelectSeq(fx, LAMBDA e : e.ev = ev)
Count(fx, ev) == Len(EventsOf(fx, ev))

\* Promises returned by the deleteFn calls of one get (async deleteFn only).
NewPending(fx, g) ==
    IF deleteMode \in {"async", "reject"}
    THEN {[get |-> g, call |-> i, key |-> EventsOf(fx, "release")[i].key]
            : i \in 1..Count(fx, "release")}
    ELSE {}

\* valueFn calls chained on the promise of the deleteFn call of line 117,
\* which is the last deleteFn call of the get.
NewDeferred(fx, g) ==
    {[get |-> g, call |-> Count(fx, "release"),
      key |-> EventsOf(fx, "defer")[i].key,
      slotId |-> EventsOf(fx, "defer")[i].slotId]
        : i \in 1..Count(fx, "defer")}

\* Promises returned by the valueFn calls of one get.
NewProducing(fx) ==
    IF valueMode = "async"
    THEN {EventsOf(fx, "produce")[i].value : i \in 1..Count(fx, "produce")}
    ELSE {}

Remove(s, k) == SelectSeq(s, LAMBDA x : x # k)

\* ---------------------------------------------------------------- actions
Init ==
    /\ capacity \in 0..MaxCapacity
    /\ deleteMode \in DeleteModes
    /\ slots = [k \in {} |-> NoValue]
    /\ lruFront = Null
    /\ lruBack = Null
    /\ occupancy = 0
    /\ nGets = 0
    /\ last = [get |-> 0, key |-> Null, hit |-> FALSE, kind |-> "none",
               value |-> NoValue, events |-> <<>>]
    /\ mru = <<>>
    /\ pending = {}
    /\ deferred = {}
    /\ lastProduce = [get |-> 0, key |-> Null, slotId |-> 0, relPending |-> {}]
    /\ printed = NotPrinted
    /\ valueMode = "sync"
    /\ failing = {}
    /\ producing = {}

\* One call cache.get(element) with keyFn(element) = key.
Get(key) ==
    /\ nGets < MaxGets
    /\ Cardinality(pending) < MaxPending
    /\ LET g == nGets + 1
           r == get(T, key, g)
       IN  /\ slots' = r.t.slots
           /\ lruFront' = r.t.lruFront
           /\ lruBack' = r.t.lruBack
           /\ occupancy' = r.t.occupancy
           /\ nGets' = g
           /\ last' = [get |-> g, key |-> key, hit |-> key \in DOMAIN slots,
                       kind |-> r.kind, value |-> r.value, events |-> r.fx]
           /\ mru' = <<key>> \o Remove(mru, key)
           /\ pending' = pending \cup NewPending(r.fx, g)
           /\ deferred' = deferred \cup NewDeferred(r.fx, g)
           /\ lastProduce' =
                 IF Count(r.fx, "produce") > 0
                 THEN [get |-> g, key |-> key,
                       slotId |-> EventsOf(r.fx, "produce")[1].slotId,
                       relPending |-> {}]
                 ELSE lastProduce
           /\ producing' = producing \cup NewProducing(r.fx)
    /\ printed' = NotPrinted
    /\ UNCHANGED <<capacity, deleteMode, valueMode, failing>>

\* A promise returned by deleteFn settles.  When it resolves, the .then
\* callback of line 120 chained on it, if any, runs and calls valueFn; when
\* it rejects, the callback is dropped and valueFn is not called.
ReleaseResolve(p) ==
    /\ p \in pending
    /\ pending' = pending \ {p}
    /\ LET ready == {d \in deferred : d.get = p.get /\ d.call = p.call}
           run == IF deleteMode = "reject" THEN {} ELSE ready
       IN  /\ deferred' = deferred \ ready
           /\ lastProduce' =
                 IF run # {}
                 THEN LET d == CHOOSE d \in run : TRUE
                      IN  [get |-> d.get, key |-> d.key, slotId |-> d.slotId,
                           relPending |->
                              {q.call : q \in {x \in pending' : x.get = d.get}}]
                 ELSE lastProduce
           /\ producing' =
                 IF valueMode = "async"
                 THEN producing \cup {valueFn(d.key, d.slotId, d.get) : d \in run}
                 ELSE producing
    /\ UNCHANGED <<capacity, deleteMode, slots, lruFront, lruBack, occupancy,
                   nGets, last, mru, printed, valueMode, failing>>

\* A promise returned by valueFn settles: it resolves, or rejects when the
\* element is one valueFn fails for.  The cache is not told.
ValueSettle(v) ==
    /\ v \in producing
    /\ producing' = producing \ {v}
    /\ UNCHANGED <<capacity, deleteMode, slots, lruFront, lruBack, occupancy,
                   nGets, last, mru, pending, deferred, lastProduce, printed,
                   valueMode, failing>>

\* One call cache.print().
PrintKeys ==
    /\ printed = NotPrinted
    /\ LET r == print(T)
       IN  /\ slots' = r.t.slots
           /\ lruFront' = r.t.lruFront
           /\ lruBack' = r.t.lruBack
           /\ occupancy' = r.t.occupancy
           /\ printed' = [kind |-> r.kind, elems |-> r.elems]
    /\ UNCHANGED <<capacity, deleteMode, nGets, last, mru, pending, deferred,
                   lastProduce, valueMode, failing, producing>>

Next ==
    \/ \E key \in Keys : Get(key)
    \/ \E p \in pending : ReleaseResolve(p)
    \/ PrintKeys

Spec == Init /\ [][Next]_vars

\* The cache constructed with collaborators that fail or return promises.
InitFaulty ==
    /\ capacity \in 1..MaxCapacity
    /\ deleteMode \in FaultyDeleteModes
    /\ valueMode \in ValueModes
    /\ failing \in FailingSets
    /\ valueMode = "sync" => failing # {}
    /\ slots = [k \in {} |-> NoValue]
    /\ lruFront = Null
    /\ lruBack = Null
    /\ occupancy = 0
    /\ nGets = 0
    /\ last = [get |-> 0, key |-> Null, hit |-> FALSE, kind |-> "none",
               value |-> NoValue, events |-> <<>>]
    /\ mru = <<>>
    /\ pending = {}
    /\ deferred = {}
    /\ lastProduce = [get |-> 0, key |-> Null, slotId |-> 0, relPending |-> {}]
    /\ printed = NotPrinted
    /\ producing = {}

NextFaulty ==
    \/ \E key \in Keys : Get(key)
    \/ \E p \in pending : ReleaseResolve(p)
    \/ \E v \in producing : ValueSettle(v)

SpecFaulty == InitFaulty /\ [][NextFaulty]_vars

\* ================================================================ claims
\* A step that is one get call.
GetStep == nGets' = nGets + 1

Resident == DOMAIN slots

\* The keys met by following next links from the front pointer.
RECURSIVE Walk(_, _)
Walk(k, seen) ==
    IF k = Null \/ k \in seen \/ k \notin DOMAIN slots THEN seen
    ELSE Walk(slots[k].next, seen \cup {k})

Reachable == Walk(lruFront, {})

\* The first n keys met by following next links from key k of the slots s.
RECURSIVE ChainFrom(_, _, _)
ChainFrom(s, k, n) ==
    IF n = 0 \/ k = Null \/ k \notin DOMAIN s THEN <<>>
    ELSE <<k>> \o ChainFrom(s, s[k].next, n - 1)

\* The resident key whose last get call is the oldest.
LRUResident ==
    LET idx == {i \in 1..Len(mru) : mru[i] \in Resident}
    IN  mru[CHOOSE i \in idx : \A j \in idx : j <= i]

Evicted(l) == EventsOf(l.events, "evict")

\* C1: whenever a get misses on a full cache of capacity >= 1, the entry it
\* evicts is the least recently used one: the resident key whose most recent
\* get is older than that of every other resident key.
C1_EvictsLeastRecentlyUsed ==
    [][(GetStep /\ capacity >= 1 /\ Len(Evicted(last')) > 0)
          => Evicted(last')[1].key = LRUResident]_vars

\* C2: in every reachable state 0 <= occupancy <= capacity, and the cache
\* never holds more entries than capacity.
C2_OccupancyBounded ==
    /\ occupancy >= 0
    /\ occupancy <= capacity
    /\ Cardinality(Resident) <= capacity

\* C2 witness: a get missed on a full cache, evicted and inserted, and the
\* cache is full again.
C2_Witness ==
    /\ capacity >= 2
    /\ occupancy = capacity
    /\ last.kind = "return"
    /\ Len(Evicted(last)) = 1
    /\ Count(last.events, "insert") = 1

\* C3: a get whose key is already resident returns the value stored at
\* insertion unchanged and does not invoke produce.
C3_HitReturnsStoredValue ==
    [][(GetStep /\ capacity >= 1 /\ last'.hit)
          => /\ last'.kind = "return"
             /\ last'.value = slots[last'.key].value
             /\ slots'[last'.key].value = slots[last'.key].value
             /\ Count(last'.events, "produce") = 0
             /\ Count(last'.events, "defer") = 0]_vars

\* C4: with a release function configured, each eviction invokes release
\* exactly once, with the evicted entry's key and value, and release is not
\* invoked when nothing is evicted.
C4_ReleaseOncePerEviction ==
    deleteMode \in {"sync", "async"}
        => /\ Count(last.events, "release") = Len(Evicted(last))
           /\ \A i \in 1..Len(Evicted(last)) :
                 /\ EventsOf(last.events, "release")[i].key = Evicted(last)[i].key
                 /\ EventsOf(last.events, "release")[i].value
                       = Evicted(last)[i].value

\* C5: produce for the incoming element starts only after the release call
\* for the evicted entry has completed; produce never starts while a release
\* of the same get is still pending.
C5_ReleaseBeforeProduce == lastProduce.relPending = {}

\* C6: after every get, occupancy equals the number of entries reachable
\* from the front pointer by next links, and the number of keys in the map.
C6_OccupancyIsChainLength ==
    capacity >= 1
        => /\ occupancy = Cardinality(Reachable)
           /\ occupancy = Cardinality(Resident)

\* C7: after every get the chain is internally consistent: prev and next of
\* resident entries name resident entries that link back, no entry links to
\* itself, and no entry is linked from two entries.
C7_LinksConsistent ==
    capacity >= 1
        => \A e \in Resident :
              /\ slots[e].prev # Null
                    => /\ slots[e].prev \in Resident
                       /\ slots[e].prev # e
                       /\ slots[slots[e].prev].next = e
              /\ slots[e].next # Null
                    => /\ slots[e].next \in Resident
                       /\ slots[e].next # e
                       /\ slots[slots[e].next].prev = e
              /\ Cardinality({x \in Resident : slots[x].next = e}) <= 1
              /\ Cardinality({x \in Resident : slots[x].prev = e}) <= 1

\* C8: after every get on a non-empty cache, the front entry has an empty
\* prev link and the back entry has an empty next link.
C8_EndsAreEmpty ==
    (capacity >= 1 /\ Resident # {})
        => /\ lruFront \in Resident
           /\ slots[lruFront].prev = Null
           /\ lruBack \in Resident
           /\ slots[lruBack].next = Null

\* The chain of the slots s read from front f, without key k.
Others(s, f, k) == Remove(ChainFrom(s, f, Cardinality(DOMAIN s) + 1), k)

\* C9: after any get returns, its key is resident and is the front entry,
\* and a hit leaves the relative order of all other resident entries
\* unchanged.
C9_GetMovesKeyToFront ==
    [][(GetStep /\ capacity >= 1 /\ last'.kind = "return")
          => /\ last'.key \in DOMAIN slots'
             /\ lruFront' = last'.key
             /\ last'.hit
                   => Others(slots', lruFront', last'.key)
                         = Others(slots, lruFront, last'.key)]_vars

\* C10: a get that misses while occupancy < capacity invokes produce exactly
\* once with the element and slot index = occupancy before the insertion,
\* stores the new entry at the front (as front and back if the cache was
\* empty), increments occupancy by exactly 1 and returns the produced value.
C10_InsertWithRoom ==
    [][(GetStep /\ ~last'.hit /\ occupancy < capacity)
          => /\ Count(last'.events, "produce") = 1
             /\ EventsOf(last'.events, "produce")[1].key = last'.key
             /\ EventsOf(last'.events, "produce")[1].slotId = occupancy
             /\ last'.kind = "return"
             /\ last'.value = EventsOf(last'.events, "produce")[1].value
             /\ last'.key \in DOMAIN slots'
             /\ slots'[last'.key].value = last'.value
             /\ lruFront' = last'.key
             /\ (occupancy = 0 => lruBack' = last'.key)
             /\ occupancy' = occupancy + 1]_vars

\* The calls of the original valueFn a get made or chained on a promise.
Produced(l) == EventsOf(l.events, "produce") \o EventsOf(l.events, "defer")

\* C11: when a get evicts an entry to insert a new key, the slot index
\* passed to produce for the new entry is the slot index that was passed to
\* produce when the evicted entry was inserted.
C11_SlotIndexReused ==
    [][(GetStep /\ capacity >= 1 /\ Len(Evicted(last')) > 0
               /\ Len(Produced(last')) > 0)
          => Produced(last')[1].slotId = Evicted(last')[1].value.slotId]_vars

\* C12: in every reachable state the slot indices of the resident entries
\* are pairwise distinct integers in 0..capacity-1.
C12_SlotIndicesDistinct ==
    \A a \in Resident :
        /\ slots[a].value.slotId \in 0..(capacity - 1)
        /\ \A b \in Resident :
              a # b => slots[a].value.slotId # slots[b].value.slotId

\* C13: on a cache with capacity >= 1 whose produce and release never fail,
\* every get completes and returns a value.
C13_GetNeverFails ==
    (capacity >= 1 /\ deleteMode # "throw") => last.kind # "throw"

\* The keys get was called with so far.
Requested == {mru[i] : i \in 1..Len(mru)}

\* C14: as long as the gets made so far name at most capacity distinct keys,
\* occupancy equals the number of distinct keys, all of them are resident,
\* nothing has been evicted, and a get of any of them returns its stored
\* value without invoking produce again (produce runs once, on the miss).
C14_DistinctKeysAllKept ==
    Cardinality(Requested) <= capacity
        => /\ occupancy = Cardinality(Requested)
           /\ Resident = Requested
           /\ last.kind # "throw"
           /\ Len(Evicted(last)) = 0
           /\ \A k \in Resident : slots[k].value.key = k
           /\ last.hit => /\ Len(Produced(last)) = 0
                          /\ last.value = slots[last.key].value
           /\ (nGets > 0 /\ ~last.hit)
                 => /\ Len(Produced(last)) = 1
                    /\ last.value = slots[last.key].value
                    /\ last.value.gen = nGets

\* C14 witness: capacity distinct keys were inserted and one of them was then
\* requested again and returned.
C14_Witness ==
    /\ capacity = 3
    /\ Cardinality(Requested) = 3
    /\ nGets >= 4
    /\ last.hit
    /\ last.kind = "return"
    /\ last.value.gen < nGets

\* The reference LRU list: the requested key moves to the head on every get
\* and the tail is dropped on overflow.
RefLRU ==
    SubSeq(mru, 1, IF Len(mru) < capacity THEN Len(mru) ELSE capacity)

\* C15: after any sequence of gets the chain read from the front by next
\* links lists exactly the resident keys from most to least recently
\* requested, as the reference LRU list does.
C15_ChainMatchesReference ==
    capacity >= 1
        => /\ ChainFrom(slots, lruFront, Cardinality(Resident) + 1) = RefLRU
           /\ Resident = {RefLRU[i] : i \in 1..Len(RefLRU)}

\* C16: with no release function, a get that misses on a full cache evicts
\* the back entry without a release call and still inserts the new entry:
\* afterwards the new key is resident, the evicted key is not, and occupancy
\* equals capacity.
C16_SilentEvictionInserts ==
    [][(GetStep /\ deleteMode = "none" /\ capacity >= 1 /\ ~last'.hit
               /\ occupancy = capacity)
          => /\ Count(last'.events, "release") = 0
             /\ Len(Evicted(last')) = 1
             /\ Evicted(last')[1].key \notin DOMAIN slots'
             /\ last'.key \in DOMAIN slots'
             /\ occupancy' = capacity]_vars

\* C17: every get performs at most one eviction and at most one invocation
\* of the original produce; the retry after an eviction finds
\* occupancy = capacity - 1 and takes the insertion branch.
C17_AtMostOneEviction ==
    /\ Len(Evicted(last)) <= 1
    /\ Len(Produced(last)) <= 1
    /\ Len(Evicted(last)) = 1
          => /\ Len(Produced(last)) = 1
             /\ Produced(last)[1].slotId = capacity - 1
             /\ Produced(last)[1].key = last.key
             /\ occupancy <= capacity

\* C17 witness: a get evicted once, inserted on the retry and returned.
C17_Witness ==
    /\ Len(Evicted(last)) = 1
    /\ Count(last.events, "insert") = 1
    /\ last.kind = "return"
    /\ deleteMode = "async"
    /\ capacity > 1

\* A step that is one print call.
PrintStep == printed = NotPrinted /\ printed' # NotPrinted

\* C18: print has no side effects on cache state: the map with every entry's
\* key, value, prev and next, the front and back pointers and occupancy are
\* unchanged by print, in every reachable state.
C18_PrintChangesNothing ==
    [][PrintStep => /\ slots' = slots
                    /\ lruFront' = lruFront
                    /\ lruBack' = lruBack
                    /\ occupancy' = occupancy]_vars

\* C18 witness: print ran to its end on a cache holding several entries.
C18_Witness ==
    /\ printed.kind = "done"
    /\ Len(printed.elems) >= 2
    /\ occupancy >= 2

\* C19: in every reachable state print emits the resident keys from most to
\* least recently used, as many keys as occupancy, and nothing when the cache
\* has no resident entries.
C19_PrintListsRecencyOrder ==
    (capacity >= 1 /\ printed # NotPrinted)
        => /\ printed.kind = "done"
           /\ printed.elems = RefLRU
           /\ Len(printed.elems) = occupancy
           /\ Resident = {} => printed.elems = <<>>

\* C20: a cache constructed with capacity 0 has defined behaviour: every get
\* passes through to produce without caching, and get never attempts an
\* eviction when there is no back entry.  (The constructor rejects nothing:
\* capacity 0 is an initial state.)
C20_ZeroCapacityPassesThrough ==
    (capacity = 0 /\ nGets > 0)
        => /\ last.kind = "return"
           /\ Len(Produced(last)) = 1
           /\ last.value = Produced(last)[1].value
           /\ Resident = {}

\* C23: when the evicted back entry is also the front entry (the cache holds
\* a single entry), the eviction empties both pointers before the retry, so
\* the new entry's next link is empty and it becomes both front and back.
C23_EvictingTheOnlyEntry ==
    [][(GetStep /\ deleteMode # "throw" /\ ~last'.hit
               /\ capacity = 1 /\ occupancy = 1 /\ Resident = {lruBack}
               /\ lruFront = lruBack)
          => /\ last'.kind = "return"
             /\ Resident' = {last'.key}
             /\ slots'[last'.key].next = Null
             /\ slots'[last'.key].prev = Null
             /\ lruFront' = last'.key
             /\ lruBack' = last'.key]_vars

\* The entries of the slots s without their links.
Values(s) == [k \in DOMAIN s |-> s[k].value]

\* C24: an entry leaves the cache only as the back entry of a get that misses
\* on a full cache and enters it only by a miss; a hit leaves the resident
\* keys, every entry's value and slot index, and occupancy unchanged, and a
\* miss with room removes no key.
C24_EntriesLeaveOnlyByEviction ==
    [][/\ ~GetStep => Values(slots') = Values(slots)
       /\ GetStep
            => /\ Resident \ Resident' # {}
                     => /\ ~last'.hit
                        /\ occupancy = capacity
                        /\ Resident \ Resident' = {lruBack}
                        /\ Len(Evicted(last')) = 1
               /\ Resident' \ Resident # {}
                     => /\ ~last'.hit
                        /\ Resident' \ Resident = {last'.key}
               /\ \A k \in Resident \cap Resident' :
                     slots'[k].value = slots[k].value
               /\ last'.hit => /\ Values(slots') = Values(slots)
                               /\ occupancy' = occupancy
               /\ (~last'.hit /\ occupancy < capacity)
                     => Resident \subseteq Resident']_vars

\* C24 witness: after at least one eviction, a hit on the back entry returned.
C24_Witness ==
    /\ deleteMode = "none"
    /\ Cardinality(Requested) > Cardinality(Resident)
    /\ Cardinality(Resident) >= 2
    /\ last.hit
    /\ last.kind = "return"
    /\ lruBack = last.key

\* C26: print terminates in every state reachable by get calls: following
\* next links from the front pointer reaches an empty link after finitely
\* many steps.
C26_PrintTerminates == capacity >= 1 => printed.kind # "diverge"

\* C27: with a release function that throws on every call, a get that misses
\* on a full cache fails with that error without invoking produce and leaves
\* the map, the chain, both pointers and occupancy as they were; hits and
\* insertions below capacity are unaffected.
C27_ThrowingReleaseChangesNothing ==
    [][(GetStep /\ deleteMode = "throw" /\ capacity >= 1)
          => /\ (~last'.hit /\ occupancy = capacity)
                   => /\ last'.kind = "throw"
                      /\ Len(Produced(last')) = 0
                      /\ Count(last'.events, "release") = 1
                      /\ EventsOf(last'.events, "release")[1].key = lruBack
                      /\ slots' = slots
                      /\ lruFront' = lruFront
                      /\ lruBack' = lruBack
                      /\ occupancy' = occupancy
             /\ last'.hit
                   => /\ last'.kind = "return"
                      /\ last'.value = slots[last'.key].value
                      /\ Count(last'.events, "release") = 0
             /\ (~last'.hit /\ occupancy < capacity)
                   => /\ last'.kind = "return"
                      /\ last'.key \in Resident'
                      /\ occupancy' = occupancy + 1
                      /\ Count(last'.events, "release") = 0]_vars

\* C27 witness: the throwing release stopped a get on a full cache of several
\* entries.
C27_Witness ==
    /\ deleteMode = "throw"
    /\ capacity >= 2
    /\ occupancy = capacity
    /\ last.kind = "throw"
    /\ ~last.hit
    /\ Count(last.events, "release") = 1

\* A step in which the release of the entry with key k, evicted by the last
\* get, fails: deleteFn throws inside that get, or a promise deleteFn returned
\* to that get rejects.
ReleaseFailsStep(k) ==
    \/ /\ GetStep
       /\ deleteMode = "throw"
       /\ last'.kind = "throw"
       /\ Count(last'.events, "release") > 0
       /\ EventsOf(last'.events, "release")[1].key = k
    \/ /\ deleteMode = "reject"
       /\ \E p \in pending \ pending' : p.get = nGets /\ p.key = k

\* C21: if release fails, synchronously or asynchronously, during an
\* eviction, the eviction bookkeeping has already been committed: the evicted
\* key is no longer in the map, no resident entry's prev/next and neither the
\* front nor the back pointer refers to it, and occupancy was decremented.
C21_EvictionCommittedBeforeReleaseFails ==
    [][\A k \in Keys :
          ReleaseFailsStep(k)
             => /\ Len(Evicted(last')) = 1
                /\ Evicted(last')[1].key = k
                /\ k \notin Resident'
                /\ \A e \in Resident' :
                      slots'[e].prev # k /\ slots'[e].next # k
                /\ lruFront' # k
                /\ lruBack' # k]_vars

\* The ordering invariants of the data model taken together.
Consistent ==
    /\ occupancy <= capacity
    /\ occupancy = Cardinality(Reachable)
    /\ occupancy = Cardinality(Resident)
    /\ C7_LinksConsistent
    /\ C8_EndsAreEmpty

\* C22: if produce fails, synchronously or asynchronously, during a get, the
\* failed key is not resident afterwards and the ordering invariants still
\* hold, with any eviction done for that get remaining in effect.
C22_FailedProduceNotResident ==
    [][/\ (GetStep /\ valueMode = "sync" /\ last'.key \in failing
                  /\ Count(last'.events, "produce") > 0)
            => /\ last'.kind = "throw"
               /\ last'.key \notin Resident'
               /\ \A i \in 1..Len(Evicted(last')) :
                     Evicted(last')[i].key \notin Resident'
               /\ Consistent'
       /\ \A v \in producing \ producing' :
             v.key \in failing
                => /\ ~(v.key \in Resident' /\ slots'[v.key].value = v)
                   /\ Consistent']_vars

\* C25: with an asynchronous produce the structural changes of a get are
\* complete when get returns the pending value: the structural invariants
\* hold at every suspension point, and a get for a key whose production is
\* pending is a hit that returns the same pending value and does not invoke
\* produce again.
C25_PendingProductionIsAHit ==
    [][valueMode = "async"
          => /\ Consistent'
             /\ (GetStep /\ last'.key \in Resident
                         /\ slots[last'.key].value \in producing)
                   => /\ last'.hit
                      /\ last'.kind = "return"
                      /\ last'.value = slots[last'.key].value
                      /\ Len(Produced(last')) = 0
                      /\ producing' = producing]_vars

====
